---- MODULE Spec2Model ----
(***************************************************************************)
(* BloodGrid server (src/index.js): an Express application whose handlers  *)
(* read and write four MongoDB collections.  The state of the program is   *)
(* the content of the collections plus the HTTP calls that are in flight.  *)
(* A call is received (its request is fixed), then every awaited store or  *)
(* identity-provider operation of its middleware chain and handler is one  *)
(* atomic step; the step that answers the call records the response.       *)
(***************************************************************************)
EXTENDS Integers, Sequences, FiniteSets, TLC

\* ------------------------------------------------------------------ bounds
MaxUsers    == 2      \* documents the users collection may hold
MaxRequests == 1      \* documents ever inserted into the requests collection
MaxBlogs    == 1      \* documents ever inserted into the blogs collection
MaxClock    == 2      \* milliseconds the clock runs through
MaxListed   == 2      \* requests stored when listings are paged
MaxPage     == 2      \* page numbers a listing asks for
MaxLimit    == 1      \* page sizes a listing asks for
MaxPayments == 3      \* documents ever inserted into the payments collection

\* ------------------------------------------------------------- value sets
NoVal == "none"       \* an absent (undefined / falsy) field or parameter

\* Two client connections; each runs one call at a time.  The first is the
\* session of the account a@x, the second the session of d@x.
Clients == {"c1", "c2"}
ClientEmail(c) == IF c = "c1" THEN "a@x" ELSE "d@x"
Other(c) == IF c = "c1" THEN "c2" ELSE "c1"

Emails   == {"a@x", "d@x"}
Roles    == {"donor", "volunteer", "admin"}
Statuses == {"pending", "inprogress", "done", "canceled"}

NoDonor == [name |-> NoVal, email |-> NoVal]
D1 == [name |-> "D1", email |-> "d1@x"]
D2 == [name |-> "D2", email |-> "d2@x"]
\* donorName / donorEmail of a request body (field donor of the model's
\* body): both absent or both given.  The donor sub-record a body may carry
\* under the key donor is the field donorField.
DonorInputs == {NoDonor, D1, D2}

\* requesterEmail of a create payload (no request handler reads it back
\* except the per-requester listings)
RequesterInputs == {"d@x"}

\* An id is the position of the document in insertion order (callers send
\* well-formed ObjectId strings); 0 stands for no id at all.

\* bloodGroup, district and upazila of an account or of a donor search
NoArea == [bloodGroup |-> NoVal, district |-> NoVal, upazila |-> NoVal]
Area1  == [bloodGroup |-> "A+", district |-> "Dhaka", upazila |-> "Savar"]
Area2  == [bloodGroup |-> "A+", district |-> "Dhaka", upazila |-> "Dhamrai"]

NoBody == [status |-> NoVal, donor |-> NoDonor, role |-> NoVal,
           ustatus |-> NoVal, name |-> NoVal, email |-> NoVal, area |-> NoArea,
           title |-> NoVal, updatedAt |-> 0, amount |-> 0,
           page |-> 0, limit |-> 0, intent |-> NoVal,
           donorField |-> NoDonor, createdAt |-> 0]
NoAuth == [kind |-> "missing", email |-> NoVal]
NoOut  == [owner |-> NoVal, items |-> {}, modified |-> 0, total |-> 0,
           list |-> << >>, totalPages |-> 0, totalUsers |-> 0,
           totalDonationRequests |-> 0, totalFunds |-> 0]

Idle == [ep |-> "idle", pc |-> "idle", auth |-> NoAuth, qEmail |-> NoVal,
         id |-> 0, body |-> NoBody, resp |-> 0, out |-> NoOut,
         race |-> FALSE, revoked |-> FALSE, failed |-> FALSE, at |-> 0]

VARIABLES
  usersCollection,     \* Seq of [email, role, status, name, area]
  requestsCollection,  \* Seq of [requesterEmail, status, donor, createdAt, deleted]
  blogsCollection,     \* Seq of [status, title, updatedAt]
  paymentsCollection,  \* Seq of [amount]
  clock,               \* the time new Date() returns, in milliseconds
  calls                \* client -> the call it is running or ran last

vars == <<usersCollection, requestsCollection, blogsCollection,
          paymentsCollection, clock, calls>>

\* ------------------------------------------------------------ the store
NoUser == [email |-> NoVal, role |-> NoVal, status |-> NoVal, name |-> NoVal,
           area |-> NoArea]

\* a role cache filled when the server starts and never refreshed
findOneUser_bootCache(email) ==
  IF email = "a@x"
    THEN [email |-> "a@x", role |-> "admin", status |-> "active", name |-> "n1",
          area |-> Area1]
    ELSE NoUser

\* position of the first account with this email, 0 if there is none
firstUser(email) ==
  LET hits == {i \in 1..Len(usersCollection) : usersCollection[i].email = email}
  IN IF hits = {} THEN 0 ELSE CHOOSE i \in hits : \A j \in hits : i <= j

\* usersCollection.findOne({ email }): the first matching document, or NoUser
findOneUser(email) ==
  IF firstUser(email) = 0 THEN NoUser ELSE usersCollection[firstUser(email)]

\* the role stored for an email in a content of the users collection
RoleIn(users, email) ==
  LET hits == {i \in 1..Len(users) : users[i].email = email}
  IN IF hits = {} THEN NoVal
     ELSE users[CHOOSE i \in hits : \A j \in hits : i <= j].role

StoredRole(email) == RoleIn(usersCollection, email)

\* the stored role of the account a client is signed in as
CallerRole(c) == StoredRole(ClientEmail(c))

\* what is left at the position of a document that deleteOne removed
Deleted == [requesterEmail |-> NoVal, status |-> NoVal, donor |-> NoDonor,
            createdAt |-> 0, deleted |-> TRUE]

\* a filter { _id: new ObjectId(id) } matches a live document
Matches(id) ==
  /\ id \in 1..Len(requestsCollection)
  /\ ~requestsCollection[id].deleted

\* an update that writes every field of the patch, the absent ones too
SetRequest_overwrite(doc, fields) ==
  [doc EXCEPT !.status = fields.status, !.donor = fields.donor,
              !.requesterEmail = fields.requesterEmail,
              !.createdAt = fields.createdAt]

\* { $set: fields } on a request document: only the fields present are written
SetRequest(doc, fields) ==
  [doc EXCEPT !.status = IF fields.status # NoVal THEN fields.status ELSE @,
              !.donor  = IF fields.donor # NoDonor THEN fields.donor ELSE @,
              !.requesterEmail =
                 IF fields.requesterEmail # NoVal THEN fields.requesterEmail ELSE @,
              !.createdAt = IF fields.createdAt # 0 THEN fields.createdAt ELSE @]

\* ------------------------------------------------------- receiving a call
Free(c) == calls[c].pc \in {"idle", "done"}

\* The role-gated endpoints and the roles each admits.
AdminOnly      == {"getAdminUsers", "getPayments"}
AdminVolunteer == {"getAdminRequests"}
RoleGated      == AdminOnly \cup AdminVolunteer
Allowed(ep)    == IF ep \in AdminOnly THEN {"admin"} ELSE {"admin", "volunteer"}

\* Bookkeeping for role-gated calls in flight: revoked stays TRUE as long as
\* the stored role of the caller has been outside the allowed set ever since
\* the call was received.
Track(f, users) ==
  [c \in Clients |->
     IF f[c].revoked /\ f[c].pc # "done"
          /\ RoleIn(users, f[c].auth.email) \in Allowed(f[c].ep)
       THEN [f[c] EXCEPT !.revoked = FALSE] ELSE f[c]]

\* The call of client c is answered with status code and output, in a step
\* that leaves the users collection as users.  The answer keeps the endpoint
\* and the payload of the call.  Only the most recent answer is kept: an
\* earlier answer held by the other client is dropped.
AnswerCallU(c, call, code, output, users) ==
  calls' = Track([calls EXCEPT
              ![c] = [Idle EXCEPT !.ep = call.ep, !.pc = "done",
                                  !.auth = call.auth, !.qEmail = call.qEmail,
                                  !.body = call.body, !.revoked = call.revoked,
                                  !.failed = call.failed,
                                  !.resp = code, !.out = output],
              ![Other(c)] = IF @.pc = "done" THEN Idle ELSE @], users)

AnswerCall(c, call, code, output) ==
  AnswerCallU(c, call, code, output, usersCollection)

Answer(c, code, output) == AnswerCall(c, calls[c], code, output)

\* Two claims race when both are in flight on the same pending request with
\* distinct donors.  The later one is marked when it is received and marks
\* the earlier one; a new call of client c ends the mark of the other
\* client's call, which referred to c's previous call.
Receive(c, rec) ==
  calls' = [calls EXCEPT ![c] = rec, ![Other(c)].race = rec.race]

\* ------------------------------------------------------------ the clock
\* The clock moves on by a millisecond.  Any number of steps of the server
\* can fall into one millisecond.
Tick ==
  /\ clock < MaxClock
  /\ clock' = clock + 1
  /\ UNCHANGED <<usersCollection, requestsCollection, blogsCollection,
               paymentsCollection, calls>>

\* ----------------------------------------------- POST /donation-requests
\* a create that trusts the status of the payload
requestData_payloadStatus(body, now) ==
  [requesterEmail |-> body.email,
   status |-> IF body.status # NoVal THEN body.status ELSE "pending",
   donor |-> body.donorField, createdAt |-> now, deleted |-> FALSE]

\* requestData = req.body; requestData.createdAt = new Date().toISOString();
\* requestData.status = "pending": every other field of the payload, the
\* donor sub-record among them, is stored as sent
requestData(body, now) ==
  [requesterEmail |-> body.email, status |-> "pending",
   donor |-> body.donorField, createdAt |-> now, deleted |-> FALSE]

\* insertions still to come from calls in flight
PendingInserts == Cardinality({c \in Clients : calls[c].ep = "postRequest"
                                               /\ calls[c].pc = "handler"})

\* payloads of a create: with or without a status, with or without a donor
\* sub-record
CreatePayloads ==
  {[NoBody EXCEPT !.status = st, !.email = em, !.donorField = dn] :
     st \in {NoVal, "done"}, em \in RequesterInputs, dn \in {NoDonor, D1}}

\* a create that carries the requester and nothing else
PlainCreatePayloads == {[NoBody EXCEPT !.email = em] : em \in RequesterInputs}

\* creates are received while fewer than max requests are stored or on
\* their way; the handler reads the clock before it awaits the insertion,
\* and the call keeps that time in the field at
RecvPostDonationRequestsWith(c, max, payloads) ==
  /\ Free(c)
  /\ Len(requestsCollection) + PendingInserts < max
  /\ \E body \in payloads :
       Receive(c, [Idle EXCEPT !.ep = "postRequest", !.pc = "handler",
                               !.body = body, !.at = clock])
  /\ UNCHANGED <<usersCollection, requestsCollection, blogsCollection,
               paymentsCollection, clock>>

RecvPostDonationRequests(c) ==
  RecvPostDonationRequestsWith(c, MaxRequests, CreatePayloads)

PostDonationRequests(c) ==
  /\ calls[c].ep = "postRequest" /\ calls[c].pc = "handler"
  /\ requestsCollection' = Append(requestsCollection, requestData(calls[c].body, calls[c].at))
  /\ Answer(c, 201, [NoOut EXCEPT !.items = {Len(requestsCollection) + 1}])
  /\ UNCHANGED <<usersCollection, blogsCollection, paymentsCollection, clock>>

\* ------------------------------------ PATCH /donation-requests/:id/donate
\* updateFields: status if truthy, donor if donorName and donorEmail are truthy
updateFields(body) ==
  [status |-> body.status,
   donor  |-> IF body.donor.name # NoVal /\ body.donor.email # NoVal
              THEN body.donor ELSE NoDonor,
   requesterEmail |-> NoVal, createdAt |-> 0]

\* a claim as the client sends it: status inprogress and both donor fields
IsClaim(call) ==
  /\ call.ep = "donate"
  /\ call.body.status = "inprogress"
  /\ call.body.donor \in {D1, D2}

RecvPatchDonateWith(c, max, statuses, donors) ==
  /\ Free(c)
  /\ \E id \in 1..max, st \in statuses, dn \in donors :
       LET rec == [Idle EXCEPT !.ep = "donate", !.pc = "handler", !.id = id,
                               !.body.status = st, !.body.donor = dn]
           o == calls[Other(c)]
       IN Receive(c, [rec EXCEPT !.race =
                        /\ IsClaim(rec) /\ IsClaim(o) /\ o.pc = "handler"
                        /\ o.id = id /\ o.body.donor # dn
                        /\ Matches(id)
                        /\ requestsCollection[id].status = "pending"])
  /\ UNCHANGED <<usersCollection, requestsCollection, blogsCollection,
               paymentsCollection, clock>>

RecvPatchDonate(c) ==
  RecvPatchDonateWith(c, MaxRequests, {NoVal, "inprogress"}, DonorInputs)

PatchDonate(c) ==
  LET call == calls[c]
      f == updateFields(call.body)
  IN
  /\ call.ep = "donate" /\ call.pc = "handler"
  /\ IF f.status = NoVal /\ f.donor = NoDonor
       THEN Answer(c, 400, NoOut) /\ UNCHANGED requestsCollection
     ELSE IF ~Matches(call.id)
       THEN Answer(c, 400, NoOut) /\ UNCHANGED requestsCollection
     ELSE LET new == SetRequest(requestsCollection[call.id], f) IN
          IF new = requestsCollection[call.id]
            THEN Answer(c, 400, NoOut) /\ UNCHANGED requestsCollection
          ELSE /\ requestsCollection' = [requestsCollection EXCEPT ![call.id] = new]
               /\ Answer(c, 200, [NoOut EXCEPT !.modified = 1])
  /\ UNCHANGED <<usersCollection, blogsCollection, paymentsCollection, clock>>

\* ------------------------------------------- PATCH /donation-requests/:id
\* updateData = req.body: the fields of a request a body can name
updateData(body) ==
  [status |-> body.status, donor |-> body.donorField,
   requesterEmail |-> body.email, createdAt |-> body.createdAt]

\* bodies of an update: empty, a status, a donor sub-record
StatusPayloads ==
  {[NoBody EXCEPT !.status = st] : st \in Statuses \cup {NoVal}}
    \cup {[NoBody EXCEPT !.donorField = D1]}

RecvPatchDonationRequestWith(c, max, payloads) ==
  /\ Free(c)
  /\ \E id \in 1..max, body \in payloads :
       Receive(c, [Idle EXCEPT !.ep = "patchRequest", !.pc = "handler",
                               !.id = id, !.body = body])
  /\ UNCHANGED <<usersCollection, requestsCollection, blogsCollection,
               paymentsCollection, clock>>

RecvPatchDonationRequest(c) ==
  RecvPatchDonationRequestWith(c, MaxRequests, StatusPayloads)

PatchDonationRequest(c) ==
  LET call == calls[c] IN
  /\ call.ep = "patchRequest" /\ call.pc = "handler"
  /\ IF ~Matches(call.id)
       THEN Answer(c, 200, NoOut) /\ UNCHANGED requestsCollection
     ELSE LET new == SetRequest(requestsCollection[call.id], updateData(call.body)) IN
          /\ requestsCollection' = [requestsCollection EXCEPT ![call.id] = new]
          /\ Answer(c, 200, [NoOut EXCEPT !.modified = IF new = requestsCollection[call.id] THEN 0 ELSE 1])
  /\ UNCHANGED <<usersCollection, blogsCollection, paymentsCollection, clock>>

\* ------------------------------------------ DELETE /donation-requests/:id
RecvDeleteDonationRequestUpTo(c, max) ==
  /\ Free(c)
  /\ \E id \in 1..max :
       Receive(c, [Idle EXCEPT !.ep = "deleteRequest", !.pc = "handler", !.id = id])
  /\ UNCHANGED <<usersCollection, requestsCollection, blogsCollection,
               paymentsCollection, clock>>

RecvDeleteDonationRequest(c) == RecvDeleteDonationRequestUpTo(c, MaxRequests)

DeleteDonationRequest(c) ==
  LET call == calls[c] IN
  /\ call.ep = "deleteRequest" /\ call.pc = "handler"
  /\ IF ~Matches(call.id)
       THEN Answer(c, 404, NoOut) /\ UNCHANGED requestsCollection
     ELSE /\ requestsCollection' = [requestsCollection EXCEPT ![call.id] = Deleted]
          /\ Answer(c, 200, NoOut)
  /\ UNCHANGED <<usersCollection, blogsCollection, paymentsCollection, clock>>

\* ---------------------------------------------------------- specification
\* The store holds the account of the administrator and no requests.
Init ==
  /\ usersCollection =
       << [email |-> "a@x", role |-> "admin", status |-> "active", name |-> "n1",
           area |-> Area1] >>
  /\ requestsCollection = << >>
  /\ blogsCollection = << >>
  /\ paymentsCollection = << >>
  /\ clock = 1
  /\ calls = [c \in Clients |-> Idle]

\* The request lifecycle engine: the four unguarded request endpoints.
NextReq ==
  \/ \E c \in Clients :
       \/ RecvPostDonationRequests(c)
       \/ PostDonationRequests(c)
       \/ RecvPatchDonate(c)
       \/ PatchDonate(c)
       \/ RecvPatchDonationRequest(c)
       \/ PatchDonationRequest(c)
       \/ RecvDeleteDonationRequest(c)
       \/ DeleteDonationRequest(c)
  \/ Tick

SpecReq == Init /\ [][NextReq]_vars

\* Creates, updates and deletes of requests while time passes: the request
\* endpoints that write the document a caller sends.
NextEdit ==
  \/ \E c \in Clients :
       \/ RecvPostDonationRequests(c)
       \/ PostDonationRequests(c)
       \/ RecvPatchDonationRequest(c)
       \/ PatchDonationRequest(c)
       \/ RecvDeleteDonationRequest(c)
       \/ DeleteDonationRequest(c)
  \/ Tick

SpecEdit == Init /\ [][NextEdit]_vars

\* ================================================== the account registry
\* Each handler below performs exactly one store operation and reads nothing
\* else that is shared, so a call is received, applied and answered in one
\* step: every interleaving of such calls is a serial order of these steps.

\* { $set: fields } on an account document: every field the body names is
\* written, the email and each of bloodGroup, district and upazila on its own
SetUser(doc, fields) ==
  [doc EXCEPT
     !.email  = IF fields.email # NoVal THEN fields.email ELSE @,
     !.role   = IF fields.role # NoVal THEN fields.role ELSE @,
     !.status = IF fields.ustatus # NoVal THEN fields.ustatus ELSE @,
     !.name   = IF fields.name # NoVal THEN fields.name ELSE @,
     !.area.bloodGroup =
        IF fields.area.bloodGroup # NoVal THEN fields.area.bloodGroup ELSE @,
     !.area.district =
        IF fields.area.district # NoVal THEN fields.area.district ELSE @,
     !.area.upazila =
        IF fields.area.upazila # NoVal THEN fields.area.upazila ELSE @]

\* -------------------------------------------------------- POST /add-user
\* a registration that trusts the role and status of the payload
userinfo_payloadRole(body) ==
  [email |-> body.email,
   role |-> IF body.role # NoVal THEN body.role ELSE "donor",
   status |-> IF body.ustatus # NoVal THEN body.ustatus ELSE "active",
   name |-> body.name, area |-> body.area]

\* userinfo = req.body; userinfo.role = "donor"; userinfo.status = "active"
userinfo(body) ==
  [email |-> body.email, role |-> "donor", status |-> "active",
   name |-> body.name, area |-> body.area]

\* payloads of a registration: a plain profile, or one that asks for
\* privileges
AddUserPayloads ==
  {[NoBody EXCEPT !.email = em, !.name = "n1", !.role = p[1], !.ustatus = p[2]] :
     em \in Emails, p \in {<<NoVal, NoVal>>, <<"admin", "blocked">>}}

PostAddUserWith(c, payloads) ==
  /\ Free(c)
  /\ Len(usersCollection) < MaxUsers
  /\ \E body \in payloads :
       LET call == [Idle EXCEPT !.ep = "addUser", !.body = body] IN
       /\ usersCollection' = Append(usersCollection, userinfo(body))
       /\ AnswerCallU(c, call, 201,
                      [NoOut EXCEPT !.items = {Len(usersCollection) + 1}],
                      Append(usersCollection, userinfo(body)))
  /\ UNCHANGED <<requestsCollection, blogsCollection, paymentsCollection, clock>>

PostAddUser(c) == PostAddUserWith(c, AddUserPayloads)

\* ------------------------------------------------ PUT /user/update/:email
\* bodies of a profile update: empty, a role, a status, another email
UpdatePayloads ==
  {NoBody, [NoBody EXCEPT !.role = "admin"], [NoBody EXCEPT !.ustatus = "blocked"],
   [NoBody EXCEPT !.email = "d@x"]}

PutUserUpdateWith(c, payloads) ==
  /\ Free(c)
  /\ \E em \in Emails, body \in payloads :
       LET call == [Idle EXCEPT !.ep = "putUser", !.qEmail = em, !.body = body]
           i == firstUser(em)
       IN IF i = 0
            THEN AnswerCall(c, call, 404, NoOut) /\ UNCHANGED usersCollection
          ELSE LET new == SetUser(usersCollection[i], body) IN
               IF new = usersCollection[i]
                 THEN AnswerCall(c, call, 404, NoOut) /\ UNCHANGED usersCollection
               ELSE /\ usersCollection' = [usersCollection EXCEPT ![i] = new]
                    /\ AnswerCallU(c, call, 200, [NoOut EXCEPT !.modified = 1],
                                   [usersCollection EXCEPT ![i] = new])
  /\ UNCHANGED <<requestsCollection, blogsCollection, paymentsCollection, clock>>

PutUserUpdate(c) == PutUserUpdateWith(c, UpdatePayloads)

\* --------------------------------------------------- PATCH /admin/users/:id
\* updateDoc.$set: role and status, each only if truthy in the body
updateDoc(body) == [NoBody EXCEPT !.role = body.role, !.ustatus = body.ustatus]

AdminPayloads ==
  {NoBody, [NoBody EXCEPT !.role = "volunteer"], [NoBody EXCEPT !.role = "donor"],
   [NoBody EXCEPT !.ustatus = "blocked"],
   [NoBody EXCEPT !.area.district = "Gazipur"]}

PatchAdminUsersWith(c, payloads) ==
  /\ Free(c)
  /\ \E id \in 1..MaxUsers, body \in payloads :
       LET call == [Idle EXCEPT !.ep = "patchAdminUser", !.id = id, !.body = body] IN
       IF body.role = NoVal /\ body.ustatus = NoVal
         THEN AnswerCall(c, call, 400, NoOut) /\ UNCHANGED usersCollection
       ELSE IF id > Len(usersCollection)
         THEN AnswerCall(c, call, 404, NoOut) /\ UNCHANGED usersCollection
       ELSE LET new == SetUser(usersCollection[id], updateDoc(body)) IN
            /\ usersCollection' = [usersCollection EXCEPT ![id] = new]
            /\ AnswerCallU(c, call, 200,
                 [NoOut EXCEPT !.modified = IF new = usersCollection[id] THEN 0 ELSE 1],
                 [usersCollection EXCEPT ![id] = new])
  /\ UNCHANGED <<requestsCollection, blogsCollection, paymentsCollection, clock>>

PatchAdminUsers(c) == PatchAdminUsersWith(c, AdminPayloads)

NextAcct ==
  \E c \in Clients :
    \/ PostAddUser(c)
    \/ PutUserUpdate(c)
    \/ PatchAdminUsers(c)

SpecAcct == Init /\ [][NextAcct]_vars

\* ===================================== identity gate and authorization
\* What a call carries in its Authorization header: nothing, a header with no
\* token part, a token the provider rejects (expired, wrong signature), or a
\* token the provider verifies; a verified token carries the email of the
\* session, or no email claim at all.
AuthInputs(c) ==
  {[kind |-> "missing", email |-> NoVal], [kind |-> "malformed", email |-> NoVal],
   [kind |-> "rejected", email |-> NoVal],
   [kind |-> "valid", email |-> ClientEmail(c)], [kind |-> "valid", email |-> NoVal]}

SelfMatch == {"getUser", "getMyRequests", "getStatusCount"}
\* endpoints behind verifyFirebaseToken alone
TokenOnly == {"getDashboard"}
Gated     == SelfMatch \cup RoleGated

\* verifyEmailQueryMatch that only asks for an email to be named
emailQueryMatch_presentOnly(call) == call.qEmail # NoVal

\* verifyEmailQueryMatch: passes unless !queryEmail || queryEmail !== decodedEmail
emailQueryMatch(call) == call.qEmail # NoVal /\ call.qEmail = call.auth.email

\* verifyAdmin that admits every stored account
isAdmin_anyAccount(user) == user # NoUser

\* verifyAdmin: passes unless !user || user.role !== "admin"
isAdmin(user) == user # NoUser /\ user.role = "admin"

\* verifyAdminVolunteer: passes unless !user || (role is neither admin nor volunteer)
isAdminOrVolunteer(user) == user # NoUser /\ user.role \in {"admin", "volunteer"}

\* A gated call is taken up; the answer the other client still holds from an
\* earlier call is dropped, as no gated call reads it.
ReceiveGated(c, rec) ==
  calls' = [calls EXCEPT ![c] = rec,
                         ![Other(c)] = IF @.pc = "done" THEN Idle ELSE @]

\* A gated call arrives.  verifyFirebaseToken answers 401 at once when the
\* header is missing or has no token part; otherwise it awaits the provider.
\* Gated calls only read the store, so two of them in flight cannot affect
\* each other: they are taken one at a time, interleaved with the calls that
\* write.
RecvGated(c) ==
  /\ Free(c)
  /\ ~(calls[Other(c)].ep \in Gated /\ calls[Other(c)].pc \notin {"done", "hung"})
  /\ \E ep \in Gated, auth \in AuthInputs(c),
        q \in {NoVal} \cup Emails :
       /\ (ep \in RoleGated => q = NoVal)
       /\ LET call == [Idle EXCEPT !.ep = ep, !.auth = auth, !.qEmail = q,
                         !.pc = "token",
                         !.revoked = /\ ep \in RoleGated /\ auth.kind = "valid"
                                     /\ StoredRole(auth.email) \notin Allowed(ep)]
          IN IF auth.kind \in {"missing", "malformed"}
               THEN AnswerCall(c, call, 401, NoOut)
             ELSE ReceiveGated(c, call)
  /\ UNCHANGED <<usersCollection, requestsCollection, blogsCollection,
               paymentsCollection, clock>>

\* The provider answers verifyIdToken.  A rejected token is answered 403.  A
\* verified one sets req.decoded and calls next(): the synchronous checks of
\* the next middleware run in the same step (the email match of the
\* self-match endpoints, the email claim test of verifyAdminVolunteer).
verifyFirebaseToken(c) ==
  LET call == calls[c] IN
  /\ call.pc = "token"
  /\ IF call.auth.kind = "rejected"
       THEN Answer(c, 403, NoOut)
     ELSE IF call.ep \in SelfMatch
       THEN IF emailQueryMatch(call)
              THEN calls' = [calls EXCEPT ![c].pc = "handler"]
            ELSE Answer(c, 403, NoOut)
     ELSE IF call.ep \in AdminVolunteer /\ call.auth.email = NoVal
       THEN Answer(c, 401, NoOut)
     ELSE IF call.ep \in TokenOnly
       THEN calls' = [calls EXCEPT ![c].pc = "handler"]
     ELSE calls' = [calls EXCEPT ![c].pc = "role"]
  /\ UNCHANGED <<usersCollection, requestsCollection, blogsCollection,
               paymentsCollection, clock>>

\* usersCollection.findOne answers verifyAdmin
verifyAdmin(c) ==
  LET call == calls[c] IN
  /\ call.pc = "role" /\ call.ep \in AdminOnly
  /\ IF isAdmin(findOneUser(call.auth.email))
       THEN calls' = [calls EXCEPT ![c].pc = "handler"]
     ELSE Answer(c, 403, NoOut)
  /\ UNCHANGED <<usersCollection, requestsCollection, blogsCollection,
               paymentsCollection, clock>>

\* usersCollection.findOne answers verifyAdminVolunteer
verifyAdminVolunteer(c) ==
  LET call == calls[c] IN
  /\ call.pc = "role" /\ call.ep \in AdminVolunteer
  /\ IF isAdminOrVolunteer(findOneUser(call.auth.email))
       THEN calls' = [calls EXCEPT ![c].pc = "handler"]
     ELSE Answer(c, 403, NoOut)
  /\ UNCHANGED <<usersCollection, requestsCollection, blogsCollection,
               paymentsCollection, clock>>

\* ids of the live requests of a requester
RequestsOf(email) ==
  {i \in 1..Len(requestsCollection) :
     ~requestsCollection[i].deleted /\ requestsCollection[i].requesterEmail = email}

LiveRequests == {i \in 1..Len(requestsCollection) : ~requestsCollection[i].deleted}

\* ----------------------------------------------------------- GET /user
GetUser(c) ==
  LET call == calls[c]
      i == firstUser(call.qEmail)
  IN
  /\ call.ep = "getUser" /\ call.pc = "handler"
  /\ IF findOneUser(call.qEmail) = NoUser
       THEN Answer(c, 404, NoOut)
     ELSE Answer(c, 200, [NoOut EXCEPT !.owner = call.qEmail, !.items = {i}])
  /\ UNCHANGED <<usersCollection, requestsCollection, blogsCollection,
               paymentsCollection, clock>>

\* ---------------------------------------- GET /my-donation-requests/user
\* query = { requesterEmail: email }; if (status) query.status = status
myRequestsQuery(email, status) ==
  {i \in RequestsOf(email) : status = NoVal \/ requestsCollection[i].status = status}

\* page = 1 and limit = 5 unless the query string gives them (0 stands for
\* an absent parameter)
parsedPage(body)  == IF body.page = 0 THEN 1 ELSE body.page
parsedLimit(body) == IF body.limit = 0 THEN 5 ELSE body.limit

\* Math.ceil(total / parsedLimit)
ceilDiv(a, b) == IF a % b = 0 THEN a \div b ELSE (a \div b) + 1

\* the orders a sort by { createdAt: -1 } can produce: every arrangement of
\* the matching requests in which the stored createdAt never increases;
\* requests with equal createdAt come in any order
sortedOrders(S) ==
  LET n == Cardinality(S) IN
  {f \in [1..n -> S] :
     /\ \A k, l \in 1..n : f[k] = f[l] => k = l
     /\ \A k \in 1..n : k < n =>
          requestsCollection[f[k]].createdAt >= requestsCollection[f[k + 1]].createdAt}

\* find(query).skip(skip).limit(limit).sort({ createdAt: -1 }): the cursor
\* sorts, then skips, then limits; the lists it can answer with
cursor(S, skip, limit) ==
  LET n    == Cardinality(S)
      last == IF skip + limit < n THEN skip + limit ELSE n
  IN {[k \in 1..(IF last > skip THEN last - skip ELSE 0) |-> f[skip + k]] :
        f \in sortedOrders(S)}

\* countDocuments(query), then find(query): two reads of the store
GetMyDonationRequestsCount(c) ==
  LET call == calls[c] IN
  /\ call.ep = "getMyRequests" /\ call.pc = "handler"
  /\ calls' = [calls EXCEPT ![c].pc = "handler2",
                 ![c].out.total =
                    Cardinality(myRequestsQuery(call.qEmail, call.body.status))]
  /\ UNCHANGED <<usersCollection, requestsCollection, blogsCollection,
               paymentsCollection, clock>>

GetMyDonationRequests(c) ==
  LET call == calls[c] IN
  /\ call.ep = "getMyRequests" /\ call.pc = "handler2"
  /\ \E list \in cursor(myRequestsQuery(call.qEmail, call.body.status),
                         (parsedPage(call.body) - 1) * parsedLimit(call.body),
                         parsedLimit(call.body)) :
       Answer(c, 200, [call.out EXCEPT
                         !.owner = call.qEmail,
                         !.items = {list[k] : k \in 1..Len(list)},
                         !.list = list,
                         !.totalPages = ceilDiv(call.out.total, parsedLimit(call.body))])
  /\ UNCHANGED <<usersCollection, requestsCollection, blogsCollection,
               paymentsCollection, clock>>

\* --------------------------------------------- GET /request-status-count
GetRequestStatusCount(c) ==
  LET call == calls[c] IN
  /\ call.ep = "getStatusCount" /\ call.pc = "handler"
  /\ Answer(c, 200, [NoOut EXCEPT !.owner = call.qEmail,
                                  !.items = RequestsOf(call.qEmail),
                                  !.total = Cardinality(RequestsOf(call.qEmail))])
  /\ UNCHANGED <<usersCollection, requestsCollection, blogsCollection,
               paymentsCollection, clock>>

\* ----------------------------------------------------- GET /admin/users
\* find(filter), then countDocuments(): the listing is marked by owner "*"
GetAdminUsersFind(c) ==
  LET call == calls[c] IN
  /\ call.ep = "getAdminUsers" /\ call.pc = "handler"
  /\ calls' = [calls EXCEPT ![c].pc = "handler2",
                 ![c].out.items = 1..Len(usersCollection)]
  /\ UNCHANGED <<usersCollection, requestsCollection, blogsCollection,
               paymentsCollection, clock>>

GetAdminUsers(c) ==
  LET call == calls[c] IN
  /\ call.ep = "getAdminUsers" /\ call.pc = "handler2"
  /\ Answer(c, 200, [call.out EXCEPT !.owner = "*",
                                     !.total = Len(usersCollection)])
  /\ UNCHANGED <<usersCollection, requestsCollection, blogsCollection,
               paymentsCollection, clock>>

\* ---------------------------------------------- GET /fundraiser-payments
GetFundraiserPayments(c) ==
  LET call == calls[c] IN
  /\ call.ep = "getPayments" /\ call.pc = "handler"
  /\ Answer(c, 200, [NoOut EXCEPT !.owner = "*"])
  /\ UNCHANGED <<usersCollection, requestsCollection, blogsCollection,
               paymentsCollection, clock>>

\* ----------------------------------------- GET /admin/donation-requests
GetAdminDonationRequestsFind(c) ==
  LET call == calls[c] IN
  /\ call.ep = "getAdminRequests" /\ call.pc = "handler"
  /\ calls' = [calls EXCEPT ![c].pc = "handler2", ![c].out.items = LiveRequests]
  /\ UNCHANGED <<usersCollection, requestsCollection, blogsCollection,
               paymentsCollection, clock>>

GetAdminDonationRequests(c) ==
  LET call == calls[c] IN
  /\ call.ep = "getAdminRequests" /\ call.pc = "handler2"
  /\ Answer(c, 200, [call.out EXCEPT !.owner = "*",
                                     !.total = Cardinality(LiveRequests)])
  /\ UNCHANGED <<usersCollection, requestsCollection, blogsCollection,
               paymentsCollection, clock>>

\* Registrations and role changes that run beside the gated calls.
GatePayloads == {[NoBody EXCEPT !.email = "d@x", !.name = "n1"]}
RolePayloads == {[NoBody EXCEPT !.role = r] : r \in Roles}

NextGate ==
  \E c \in Clients :
    \/ RecvGated(c)
    \/ verifyFirebaseToken(c)
    \/ verifyAdmin(c)
    \/ verifyAdminVolunteer(c)
    \/ GetUser(c)
    \/ GetMyDonationRequestsCount(c)
    \/ GetMyDonationRequests(c)
    \/ GetRequestStatusCount(c)
    \/ GetAdminUsersFind(c)
    \/ GetAdminUsers(c)
    \/ GetFundraiserPayments(c)
    \/ GetAdminDonationRequestsFind(c)
    \/ GetAdminDonationRequests(c)
    \/ PostAddUserWith(c, GatePayloads)
    \/ PatchAdminUsersWith(c, RolePayloads)

SpecGate == Init /\ [][NextGate]_vars

\* ========================================================== donor search
\* GET /donors has no middleware and performs one read of the store.
\* the query it builds out of bloodGroup, district and upazila, without the
\* fixed role and status
donorsQuery_anyRole(area) ==
  {i \in 1..Len(usersCollection) : usersCollection[i].area = area}

\* find({ bloodGroup, district, upazila, role: "donor", status: "active" })
donorsQuery(area) ==
  {i \in 1..Len(usersCollection) :
     /\ usersCollection[i].area = area
     /\ usersCollection[i].role = "donor"
     /\ usersCollection[i].status = "active"}

\* the three query parameters: each absent (or empty) or given
SearchInputs ==
  [bloodGroup : {NoVal, "A+"}, district : {NoVal, "Dhaka", "Gazipur"},
   upazila : {NoVal, "Savar", "Dhamrai"}]

GetDonors(c) ==
  /\ Free(c)
  /\ \E q \in SearchInputs :
       LET call == [Idle EXCEPT !.ep = "getDonors", !.body.area = q] IN
       IF q.bloodGroup = NoVal \/ q.district = NoVal \/ q.upazila = NoVal
         THEN AnswerCall(c, call, 400, NoOut)
       ELSE AnswerCall(c, call, 200, [NoOut EXCEPT !.items = donorsQuery(q)])
  /\ UNCHANGED <<usersCollection, requestsCollection, blogsCollection,
               paymentsCollection, clock>>

\* registrations with a full profile, and the admin updates that block,
\* unblock, promote or demote an account
DonorPayloads ==
  {[NoBody EXCEPT !.email = "d@x", !.name = "n1", !.area = a] : a \in {Area1, Area2}}
BlockPayloads ==
  {[NoBody EXCEPT !.ustatus = "blocked"], [NoBody EXCEPT !.ustatus = "active"],
   [NoBody EXCEPT !.role = "volunteer"], [NoBody EXCEPT !.role = "donor"]}

\* profile updates that move an account to another district
MovePayloads == {[NoBody EXCEPT !.area.district = "Gazipur"]}

NextDonors ==
  \E c \in Clients :
    \/ PostAddUserWith(c, DonorPayloads)
    \/ PatchAdminUsersWith(c, BlockPayloads)
    \/ PutUserUpdateWith(c, MovePayloads)
    \/ GetDonors(c)

SpecDonors == Init /\ [][NextDonors]_vars

\* ================================================================= blogs
BlogOthers == <<usersCollection, requestsCollection, paymentsCollection>>

\* what is left at the position of a blog that deleteOne removed
DeletedBlog == [status |-> NoVal, title |-> NoVal, updatedAt |-> 0, deleted |-> TRUE]

BlogMatches(id) ==
  /\ id \in 1..Len(blogsCollection)
  /\ ~blogsCollection[id].deleted

\* { $set: updatedFields } on a blog
SetBlog(doc, fields) ==
  [doc EXCEPT !.status    = IF fields.status # NoVal THEN fields.status ELSE @,
              !.title     = IF fields.title # NoVal THEN fields.title ELSE @,
              !.updatedAt = IF fields.updatedAt # 0 THEN fields.updatedAt ELSE @]

\* ------------------------------------------------------------ POST /blogs
\* blog = req.body; blog.status = "draft"
PostBlogs(c) ==
  /\ Free(c)
  /\ Len(blogsCollection) < MaxBlogs
  /\ \E st \in {NoVal, "published"} :
       LET call == [Idle EXCEPT !.ep = "postBlog", !.body.status = st,
                                !.body.title = "t1"] IN
       /\ blogsCollection' = Append(blogsCollection,
            [status |-> "draft", title |-> call.body.title, updatedAt |-> 0,
             deleted |-> FALSE])
       /\ AnswerCall(c, call, 201, [NoOut EXCEPT !.items = {Len(blogsCollection) + 1}])
  /\ UNCHANGED <<BlogOthers, clock>>

\* ------------------------------------------------------- PATCH /blogs/:id
\* the call records the time of its arrival in the field at
RecvPatchBlog(c) ==
  /\ Free(c)
  /\ \E id \in 1..MaxBlogs, st \in {NoVal, "draft", "published"},
        ti \in {NoVal, "t2"} :
       Receive(c, [Idle EXCEPT !.ep = "patchBlog", !.pc = "find", !.id = id,
                               !.at = clock,
                               !.body.status = st, !.body.title = ti])
  /\ UNCHANGED <<BlogOthers, blogsCollection, clock>>

\* statusInUpdate && updatedFields.status !== blog.status
statusChanged(fields, blog) == fields.status # NoVal /\ fields.status # blog.status

\* findOne answers: 404 if there is no such blog; otherwise the handler
\* decides on the status it has just read whether to stamp the patch with
\* new Date().toISOString(), the current millisecond
PatchBlogFind(c) ==
  LET call == calls[c] IN
  /\ call.ep = "patchBlog" /\ call.pc = "find"
  /\ IF ~BlogMatches(call.id)
       THEN Answer(c, 404, NoOut)
     ELSE IF statusChanged(call.body, blogsCollection[call.id])
       THEN calls' = [calls EXCEPT ![c].pc = "update"]
     ELSE calls' = [calls EXCEPT ![c].pc = "update",
                                 ![c].body.updatedAt = clock]
  /\ UNCHANGED <<BlogOthers, blogsCollection, clock>>

\* updateOne({ _id }, { $set: updatedFields }) answers
PatchBlogUpdate(c) ==
  LET call == calls[c] IN
  /\ call.ep = "patchBlog" /\ call.pc = "update"
  /\ IF ~BlogMatches(call.id)
       THEN Answer(c, 404, NoOut) /\ UNCHANGED blogsCollection
     ELSE LET new == SetBlog(blogsCollection[call.id], call.body) IN
          /\ blogsCollection' = [blogsCollection EXCEPT ![call.id] = new]
          /\ Answer(c, 200, [NoOut EXCEPT !.modified =
                               IF new = blogsCollection[call.id] THEN 0 ELSE 1])
  /\ UNCHANGED <<BlogOthers, clock>>

\* ------------------------------------------------------ DELETE /blogs/:id
DeleteBlog(c) ==
  /\ Free(c)
  /\ \E id \in 1..MaxBlogs :
       LET call == [Idle EXCEPT !.ep = "deleteBlog", !.id = id] IN
       IF BlogMatches(id)
         THEN /\ blogsCollection' = [blogsCollection EXCEPT ![id] = DeletedBlog]
              /\ AnswerCall(c, call, 200, [NoOut EXCEPT !.modified = 1])
       ELSE /\ AnswerCall(c, call, 200, NoOut)
            /\ UNCHANGED blogsCollection
  /\ UNCHANGED <<BlogOthers, clock>>

\* ------------------------------------------------------------- GET /blogs
\* the filter built from the role and status of the query string
blogFilter(role, status) ==
  IF role \in {"admin", "volunteer"}
    THEN IF status # NoVal THEN {status} ELSE {"draft", "published"}
  ELSE {"published"}

GetBlogs(c) ==
  /\ Free(c)
  /\ \E role \in {NoVal} \cup Roles, st \in {NoVal, "draft", "published"} :
       LET call == [Idle EXCEPT !.ep = "getBlogs", !.body.role = role,
                                !.body.status = st] IN
       AnswerCall(c, call, 200,
         [NoOut EXCEPT !.items = {i \in 1..Len(blogsCollection) :
                                   /\ ~blogsCollection[i].deleted
                                   /\ blogsCollection[i].status \in blogFilter(role, st)}])
  /\ UNCHANGED <<BlogOthers, blogsCollection, clock>>

NextBlogs ==
  \E c \in Clients :
    \/ PostBlogs(c)
    \/ RecvPatchBlog(c)
    \/ PatchBlogFind(c)
    \/ PatchBlogUpdate(c)
    \/ DeleteBlog(c)
    \/ GetBlogs(c)
    \/ Tick

SpecBlogs == Init /\ [][NextBlogs]_vars

\* ====================================================== paged listings
\* The requests collection as earlier creates have left it: request i of n
\* was created n + 1 - i milliseconds before the clock starts at 1.
ListedDocs ==
  {[requesterEmail |-> e, status |-> st, donor |-> NoDonor, createdAt |-> 0,
    deleted |-> FALSE] : e \in Emails, st \in {"pending", "inprogress"}}

InitPage ==
  /\ usersCollection =
       << [email |-> "a@x", role |-> "admin", status |-> "active", name |-> "n1",
           area |-> Area1] >>
  /\ \E n \in 0..MaxListed : \E f \in [1..n -> ListedDocs] :
       requestsCollection = [i \in 1..n |-> [f[i] EXCEPT !.createdAt = i - n - 1]]
  /\ blogsCollection = << >>
  /\ paymentsCollection = << >>
  /\ clock = 1
  /\ calls = [c \in Clients |-> Idle]

\* bodies of an update that rewrite the creation stamp, the requester or the
\* status
RewritePayloads ==
  {[NoBody EXCEPT !.createdAt = MaxClock], [NoBody EXCEPT !.status = "inprogress"]}
    \cup {[NoBody EXCEPT !.email = em] : em \in Emails}

\* page and limit of a listing: both absent (0), or both given
PageInputs == {<<0, 0>>} \cup ((1..MaxPage) \X (1..MaxLimit))

\* GET /my-donation-requests/user?email=..&status=..&page=..&limit=.. with the
\* token of the session and its own email
RecvMyDonationRequests(c) ==
  /\ Free(c)
  /\ ~(calls[Other(c)].ep \in Gated /\ calls[Other(c)].pc \notin {"done", "hung"})
  /\ \E st \in {NoVal, "pending"}, pl \in PageInputs :
       ReceiveGated(c, [Idle EXCEPT !.ep = "getMyRequests", !.pc = "token",
                          !.auth = [kind |-> "valid", email |-> ClientEmail(c)],
                          !.qEmail = ClientEmail(c), !.body.status = st,
                          !.body.page = pl[1], !.body.limit = pl[2]])
  /\ UNCHANGED <<usersCollection, requestsCollection, blogsCollection,
               paymentsCollection, clock>>

NextPage ==
  \/ \E c \in Clients :
       \/ RecvMyDonationRequests(c)
       \/ verifyFirebaseToken(c)
       \/ GetMyDonationRequestsCount(c)
       \/ GetMyDonationRequests(c)
       \/ RecvPostDonationRequestsWith(c, MaxListed, PlainCreatePayloads)
       \/ PostDonationRequests(c)
       \/ RecvPatchDonateWith(c, MaxListed, {"inprogress"}, {NoDonor})
       \/ PatchDonate(c)
       \/ RecvPatchDonationRequestWith(c, MaxListed, RewritePayloads)
       \/ PatchDonationRequest(c)
       \/ RecvDeleteDonationRequestUpTo(c, MaxListed)
       \/ DeleteDonationRequest(c)
  \/ Tick

SpecPage == InitPage /\ [][NextPage]_vars

\* ============================================================== payments
\* ------------------------------------------------- POST /api/save-payment
\* amounts are numbers; 0 stands for an absent (or zero) amount
SavePayment(c) ==
  /\ Free(c)
  /\ Len(paymentsCollection) < MaxPayments
  /\ \E amount \in {0, 10, 20, 30}, intent \in {NoVal, "pi"}, email \in {NoVal, "d@x"} :
       LET call == [Idle EXCEPT !.ep = "savePayment", !.body.amount = amount,
                                !.body.intent = intent, !.body.email = email] IN
       IF intent = NoVal \/ amount = 0 \/ email = NoVal
         THEN AnswerCall(c, call, 400, NoOut) /\ UNCHANGED paymentsCollection
       ELSE /\ paymentsCollection' = Append(paymentsCollection, [amount |-> amount])
            /\ AnswerCall(c, call, 200,
                          [NoOut EXCEPT !.items = {Len(paymentsCollection) + 1}])
  /\ UNCHANGED <<usersCollection, requestsCollection, blogsCollection, clock>>

\* --------------------------------------------- GET /admin/dashboard-stats
\* a total taken over the distinct amounts
sumAmounts_distinct(payments) ==
  LET amounts == {payments[i].amount : i \in 1..Len(payments)}
      RECURSIVE sumSet(_)
      sumSet(S) == IF S = {} THEN 0
                   ELSE LET x == CHOOSE y \in S : TRUE IN x + sumSet(S \ {x})
  IN sumSet(amounts)

\* aggregate([{ $group: { _id: null, total: { $sum: "$amount" } } }]) and
\* funds[0]?.total || 0
sumAmounts(payments) ==
  LET RECURSIVE sumTo(_)
      sumTo(k) == IF k = 0 THEN 0 ELSE sumTo(k - 1) + payments[k].amount
  IN sumTo(Len(payments))

RecvDashboard(c) ==
  /\ Free(c)
  /\ ~(calls[Other(c)].ep \in Gated \cup TokenOnly /\ calls[Other(c)].pc \notin {"done", "hung"})
  /\ \E auth \in {[kind |-> "rejected", email |-> NoVal],
                  [kind |-> "valid", email |-> ClientEmail(c)]} :
       ReceiveGated(c, [Idle EXCEPT !.ep = "getDashboard", !.pc = "token",
                                    !.auth = auth])
  /\ UNCHANGED <<usersCollection, requestsCollection, blogsCollection,
               paymentsCollection, clock>>

\* usersCollection.countDocuments()
DashboardUsers(c) ==
  /\ calls[c].ep = "getDashboard" /\ calls[c].pc = "handler"
  /\ calls' = [calls EXCEPT ![c].pc = "handler2",
                            ![c].out.totalUsers = Len(usersCollection)]
  /\ UNCHANGED <<usersCollection, requestsCollection, blogsCollection,
               paymentsCollection, clock>>

\* requestsCollection.countDocuments()
DashboardRequests(c) ==
  /\ calls[c].ep = "getDashboard" /\ calls[c].pc = "handler2"
  /\ calls' = [calls EXCEPT ![c].pc = "handler3",
                            ![c].out.totalDonationRequests = Cardinality(LiveRequests)]
  /\ UNCHANGED <<usersCollection, requestsCollection, blogsCollection,
               paymentsCollection, clock>>

\* the aggregate over the payments answers, and the handler responds
DashboardFunds(c) ==
  /\ calls[c].ep = "getDashboard" /\ calls[c].pc = "handler3"
  /\ Answer(c, 200, [calls[c].out EXCEPT !.totalFunds = sumAmounts(paymentsCollection)])
  /\ UNCHANGED <<usersCollection, requestsCollection, blogsCollection,
               paymentsCollection, clock>>

NextFunds ==
  \E c \in Clients :
    \/ SavePayment(c)
    \/ RecvDashboard(c)
    \/ verifyFirebaseToken(c)
    \/ DashboardUsers(c)
    \/ DashboardRequests(c)
    \/ DashboardFunds(c)

SpecFunds == Init /\ [][NextFunds]_vars

\* ========================================================= store failures
\* A store operation may reject instead of answering.  Inside a try block
\* the catch answers 500.  The operations below are awaited outside any try
\* block: the rejection leaves the async function, and the framework either
\* drops it, so that the call is never answered, or passes it to its default
\* error handler, which answers 500, depending on the framework release.
UncaughtOps ==
  {<<"getAdminUsers", "role">>, <<"getPayments", "role">>,
   <<"getPayments", "handler">>, <<"getMyRequests", "handler">>,
   <<"getMyRequests", "handler2">>}

\* the operations awaited inside a try block
CaughtOps ==
  {<<"getAdminRequests", "role">>, <<"getUser", "handler">>,
   <<"getStatusCount", "handler">>, <<"getAdminUsers", "handler">>,
   <<"getAdminUsers", "handler2">>, <<"getAdminRequests", "handler">>,
   <<"getAdminRequests", "handler2">>}

\* the operation the call of c awaits rejects inside a try block
CaughtFailure(c) ==
  /\ <<calls[c].ep, calls[c].pc>> \in CaughtOps
  /\ AnswerCall(c, [calls[c] EXCEPT !.failed = TRUE], 500, NoOut)
  /\ UNCHANGED <<usersCollection, requestsCollection, blogsCollection,
               paymentsCollection, clock>>

\* the operation the call of c awaits rejects outside any try block
UncaughtFailure(c) ==
  /\ <<calls[c].ep, calls[c].pc>> \in UncaughtOps
  /\ \/ calls' = [calls EXCEPT ![c].pc = "hung", ![c].failed = TRUE]
     \/ AnswerCall(c, [calls[c] EXCEPT !.failed = TRUE], 500, NoOut)
  /\ UNCHANGED <<usersCollection, requestsCollection, blogsCollection,
               paymentsCollection, clock>>

\* ---------------------------------------------- GET /donation-requests
\* one read, awaited outside any try block
GetDonationRequests(c) ==
  /\ Free(c)
  /\ \E st \in {NoVal, "pending"} :
       LET call == [Idle EXCEPT !.ep = "getRequests", !.body.status = st] IN
       \/ AnswerCall(c, call, 200,
            [NoOut EXCEPT !.items = {i \in LiveRequests :
                                       st \in {NoVal, requestsCollection[i].status}}])
       \/ calls' = [calls EXCEPT ![c] = [call EXCEPT !.pc = "hung", !.failed = TRUE]]
       \/ AnswerCall(c, [call EXCEPT !.failed = TRUE], 500, NoOut)
  /\ UNCHANGED <<usersCollection, requestsCollection, blogsCollection,
               paymentsCollection, clock>>

NextFail ==
  \E c \in Clients :
    \/ RecvGated(c)
    \/ verifyFirebaseToken(c)
    \/ verifyAdmin(c)
    \/ verifyAdminVolunteer(c)
    \/ GetUser(c)
    \/ GetMyDonationRequestsCount(c)
    \/ GetMyDonationRequests(c)
    \/ GetRequestStatusCount(c)
    \/ GetAdminUsersFind(c)
    \/ GetAdminUsers(c)
    \/ GetFundraiserPayments(c)
    \/ GetAdminDonationRequestsFind(c)
    \/ GetAdminDonationRequests(c)
    \/ GetDonationRequests(c)
    \/ CaughtFailure(c)
    \/ UncaughtFailure(c)

SpecFail == Init /\ [][NextFail]_vars

\* ------------------------------------------------------------------ claims
\* the call of client c is answered in this step
Answered(c) == calls[c].pc # "done" /\ calls[c].pc # "idle" /\ calls'[c].pc = "done"

\* C1: of two claims with distinct donors that are in flight together on one
\* pending request, exactly one is answered 200 and the other 400, and the
\* request ends inprogress with the donor of the call that succeeded.
ClaimRaceOneWinner ==
  [][\A c \in Clients :
       (Answered(c) /\ calls[c].race) =>
         LET o   == calls[Other(c)]
             id  == calls[c].id
             doc == requestsCollection'[id]
         IN IF o.pc = "handler"
              THEN \* the first of the two to reach the store wins
                   /\ calls'[c].resp = 200
                   /\ doc.status = "inprogress"
                   /\ doc.donor = calls[c].body.donor
              ELSE \* the other claim was answered before
                   /\ o.resp = 200
                   /\ calls'[c].resp = 400
                   /\ doc.status = "inprogress"
                   /\ doc.donor = o.body.donor]_vars

\* C2: a claim on a stored request whose status is not pending is answered
\* 400 and leaves the stored status and donor unchanged, so a request never
\* gets a second accepted donor.
ClaimOnlyWhilePending ==
  [][\A c \in Clients :
       (Answered(c) /\ IsClaim(calls[c]) /\ Matches(calls[c].id)
          /\ requestsCollection[calls[c].id].status # "pending") =>
         /\ calls'[c].resp = 400
         /\ requestsCollection' = requestsCollection]_vars

\* C3: the status of a request changes only along pending -> inprogress,
\* inprogress -> done or pending -> canceled, unless the call that changes it
\* comes from a caller whose stored role is admin or volunteer.
LifecycleEdges == {<<"pending", "inprogress">>, <<"inprogress", "done">>,
                   <<"pending", "canceled">>}

StatusFollowsLifecycle ==
  [][\A id \in 1..Len(requestsCollection) :
       LET old == requestsCollection[id]
           new == requestsCollection'[id]
       IN (~old.deleted /\ ~new.deleted /\ old.status # new.status) =>
            \/ <<old.status, new.status>> \in LifecycleEdges
            \/ \E c \in Clients : Answered(c)
                                  /\ CallerRole(c) \in {"admin", "volunteer"}]_vars

\* C4: the request a create has just stored has status pending, whatever
\* status the payload carried.
CreatedRequestIsPending ==
  \A c \in Clients :
    (calls[c].ep = "postRequest" /\ calls[c].pc = "done" /\ calls[c].resp = 201) =>
      \A i \in calls[c].out.items :
        /\ i \in 1..Len(requestsCollection)
        /\ requestsCollection[i].status = "pending"

\* a create whose payload asked for status done and carried a donor has
\* stored a pending request, with the donor of the payload
CreatedRequestIsPendingWitness ==
  \E c \in Clients :
    /\ calls[c].ep = "postRequest" /\ calls[c].pc = "done" /\ calls[c].resp = 201
    /\ calls[c].body.status = "done" /\ calls[c].body.donorField = D1
    /\ \E i \in calls[c].out.items :
         /\ requestsCollection[i].status = "pending"
         /\ requestsCollection[i].donor = D1

\* C5: the account a registration has just stored has role donor and status
\* active, whatever role or status the payload carried.
CreatedAccountIsActiveDonor ==
  \A c \in Clients :
    (calls[c].ep = "addUser" /\ calls[c].pc = "done" /\ calls[c].resp = 201) =>
      \A i \in calls[c].out.items :
        /\ i \in 1..Len(usersCollection)
        /\ usersCollection[i].role = "donor"
        /\ usersCollection[i].status = "active"

\* a registration whose payload asked for role admin and status blocked has
\* stored an active donor
CreatedAccountIsActiveDonorWitness ==
  \E c \in Clients :
    /\ calls[c].ep = "addUser" /\ calls[c].pc = "done" /\ calls[c].resp = 201
    /\ calls[c].body.role = "admin" /\ calls[c].body.ustatus = "blocked"
    /\ \E i \in calls[c].out.items :
         usersCollection[i].role = "donor" /\ usersCollection[i].status = "active"

\* C6: the role or status of a stored account changes only in a step of the
\* admin update made by a caller whose stored role is admin (so never in a
\* profile update, and never through a caller who is not admin).
RoleChangesOnlyByAdmin ==
  [][\A i \in 1..Len(usersCollection) :
       (\/ usersCollection'[i].role # usersCollection[i].role
        \/ usersCollection'[i].status # usersCollection[i].status) =>
         \E c \in Clients : /\ calls'[c].pc = "done"
                            /\ calls'[c].ep = "patchAdminUser"
                            /\ CallerRole(c) = "admin"]_vars

\* C7: on the admin-only listings the handler is entered only from the role
\* check of a caller whose stored role is admin; a caller whose account is
\* absent or whose stored role is not admin is answered 403 with no listing;
\* a call that passed the check is answered 200 with the listing.
AdminListingGate ==
  [][\A c \in Clients :
       LET old == calls[c]
           new == calls'[c]
       IN (new.ep \in AdminOnly /\ new.pc # old.pc) =>
            /\ new.pc = "handler" =>
                 old.pc = "role" /\ StoredRole(old.auth.email) = "admin"
            /\ (old.pc = "role" /\ new.pc = "done") =>
                 /\ StoredRole(old.auth.email) # "admin"
                 /\ new.resp = 403 /\ new.out = NoOut
            /\ (old.pc \in {"handler", "handler2"} /\ new.pc = "done") =>
                 new.resp = 200 /\ new.out.owner = "*"
            /\ new.out.owner = "*" => old.pc \in {"handler", "handler2"}]_vars

\* a verified caller who is stored as a donor was answered 403 by an
\* admin-only listing
AdminListingGateWitness ==
  \E c \in Clients :
    /\ calls[c].ep \in AdminOnly /\ calls[c].pc = "done"
    /\ calls[c].auth.kind = "valid"
    /\ StoredRole(calls[c].auth.email) = "donor"
    /\ calls[c].resp = 403 /\ calls[c].out = NoOut

\* C8: a role-gated call of an account whose stored role has been outside
\* the allowed set ever since the call arrived never enters the handler and
\* is answered 403 with no listing, whatever role the account held before.
RevokedRoleIsForbidden ==
  \A c \in Clients :
    (calls[c].ep \in RoleGated /\ calls[c].revoked /\ calls[c].auth.email # NoVal) =>
      \/ calls[c].pc \in {"token", "role"}
      \/ calls[c].pc = "done" /\ calls[c].resp = 403 /\ calls[c].out = NoOut

\* the account that was admin at the start lost the role, then called a
\* role-gated endpoint with its valid token and was answered 403
RevokedRoleIsForbiddenWitness ==
  \E c \in Clients :
    /\ calls[c].ep \in RoleGated /\ calls[c].pc = "done" /\ calls[c].revoked
    /\ calls[c].auth = [kind |-> "valid", email |-> "a@x"]
    /\ StoredRole("a@x") \in Roles \ Allowed(calls[c].ep)
    /\ calls[c].resp = 403

\* C9: a gated call whose credential is missing, malformed or rejected by the
\* provider never reaches the role check or the handler and is answered 401.
BadCredentialIsUnauthenticated ==
  \A c \in Clients :
    (calls[c].ep \in Gated
       /\ calls[c].auth.kind \in {"missing", "malformed", "rejected"}) =>
      /\ calls[c].pc \in {"token", "done"}
      /\ calls[c].pc = "done" => calls[c].resp = 401 /\ calls[c].out = NoOut

\* C10: a self-match call of a verified caller that names no email, or an
\* email other than the one of the token, never enters the handler and is
\* answered 403 with no data.
SelfMatchMismatchIsForbidden ==
  \A c \in Clients :
    (calls[c].ep \in SelfMatch /\ calls[c].auth.kind = "valid"
       /\ (calls[c].qEmail = NoVal \/ calls[c].qEmail # calls[c].auth.email)) =>
      \/ calls[c].pc = "token"
      \/ calls[c].pc = "done" /\ calls[c].resp = 403 /\ calls[c].out = NoOut

\* a verified caller named the email of another stored account and was
\* answered 403
SelfMatchMismatchIsForbiddenWitness ==
  \E c \in Clients :
    /\ calls[c].ep \in SelfMatch /\ calls[c].pc = "done"
    /\ calls[c].auth = [kind |-> "valid", email |-> ClientEmail(c)]
    /\ calls[c].qEmail = ClientEmail(Other(c))
    /\ findOneUser(calls[c].qEmail) # NoUser
    /\ calls[c].resp = 403 /\ calls[c].out = NoOut

\* C11: a donor search with bloodGroup, district or upazila missing or empty
\* is answered 400 with no accounts; with all three given it is answered 200
\* with exactly the stored accounts that carry the three values and have role
\* donor and status active.
DonorSearchIsExact ==
  \A c \in Clients :
    (calls[c].ep = "getDonors" /\ calls[c].pc = "done") =>
      LET q == calls[c].body.area IN
      IF NoVal \in {q.bloodGroup, q.district, q.upazila}
        THEN calls[c].resp = 400 /\ calls[c].out = NoOut
      ELSE /\ calls[c].resp = 200
           /\ \A i \in 1..Len(usersCollection) :
                i \in calls[c].out.items <=>
                  /\ usersCollection[i].area.bloodGroup = q.bloodGroup
                  /\ usersCollection[i].area.district = q.district
                  /\ usersCollection[i].area.upazila = q.upazila
                  /\ usersCollection[i].role = "donor"
                  /\ usersCollection[i].status = "active"

\* a search was answered with one matching donor while another stored account
\* with the same three values, blocked or promoted, was left out
DonorSearchIsExactWitness ==
  \E c \in Clients :
    /\ calls[c].ep = "getDonors" /\ calls[c].pc = "done" /\ calls[c].resp = 200
    /\ calls[c].out.items # {}
    /\ \E i \in 1..Len(usersCollection) :
         /\ usersCollection[i].area = calls[c].body.area
         /\ i \notin calls[c].out.items

\* C12: the write of a blog update whose patch changes the status stored at
\* that moment leaves updatedAt unchanged; the write of any other update
\* sets updatedAt to a time of the update, between its arrival and its
\* answer.
BlogStampFollowsStoredStatus ==
  [][\A c \in Clients :
       (calls[c].ep = "patchBlog" /\ calls[c].pc = "update"
          /\ calls'[c].pc = "done" /\ calls'[c].resp = 200) =>
         LET old == blogsCollection[calls[c].id]
             new == blogsCollection'[calls[c].id]
         IN IF calls[c].body.status # NoVal /\ calls[c].body.status # old.status
              THEN new.updatedAt = old.updatedAt
            ELSE new.updatedAt \in calls[c].at..clock]_vars

\* C16: a listing of blogs answered to a caller whose stored role is neither
\* admin nor volunteer holds published blogs only; answered to an admin or
\* volunteer it holds exactly the blogs of the requested status, or all blogs
\* when no status was given.
BlogListingFollowsCallerRole ==
  \A c \in Clients :
    (calls[c].ep = "getBlogs" /\ calls[c].pc = "done") =>
      LET live == {i \in 1..Len(blogsCollection) : ~blogsCollection[i].deleted} IN
      IF CallerRole(c) \in {"admin", "volunteer"}
        THEN calls[c].out.items =
               {i \in live : calls[c].body.status \in {NoVal, blogsCollection[i].status}}
      ELSE \A i \in calls[c].out.items : blogsCollection[i].status = "published"

\* C13: a listing of the requests of a requester (optionally of one status)
\* with page p and limit L, 1 and 5 when not given, over the n matching
\* requests holds, newest first, the requests at positions (p-1)*L+1 to
\* min(p*L, n), and its totalPages is the least k with k*L >= n.
ListingIsThePage ==
  \A c \in Clients :
    (calls[c].ep = "getMyRequests" /\ calls[c].pc = "done" /\ calls[c].resp = 200) =>
      LET b    == calls[c].body
          S    == {i \in 1..Len(requestsCollection) :
                     /\ ~requestsCollection[i].deleted
                     /\ requestsCollection[i].requesterEmail = calls[c].qEmail
                     /\ b.status \in {NoVal, requestsCollection[i].status}}
          n    == Cardinality(S)
          p    == IF b.page = 0 THEN 1 ELSE b.page
          L    == IF b.limit = 0 THEN 5 ELSE b.limit
          last == IF p * L < n THEN p * L ELSE n
          Pos(i) == 1 + Cardinality({j \in S : j > i})
          list == calls[c].out.list
          tp   == calls[c].out.totalPages
      IN /\ Len(list) = Cardinality(((p - 1) * L + 1)..last)
         /\ \A k \in 1..Len(list) :
              list[k] \in S /\ Pos(list[k]) = (p - 1) * L + k
         /\ tp * L >= n /\ (tp - 1) * L < n

\* C14: the totalFunds of a dashboard answer is the sum of the amounts of all
\* payment records stored, and 0 when there is none.
TotalFundsIsTheSum ==
  \A c \in Clients :
    (calls[c].ep = "getDashboard" /\ calls[c].pc = "done" /\ calls[c].resp = 200) =>
      LET n == Len(paymentsCollection)
          partial[k \in 0..n] ==
            IF k = 0 THEN 0 ELSE partial[k - 1] + paymentsCollection[k].amount
      IN calls[c].out.totalFunds = partial[n]

\* payments of 10, 20 and 30 are stored and the dashboard reported 60
TotalFundsIsTheSumWitness ==
  \E c \in Clients :
    /\ calls[c].ep = "getDashboard" /\ calls[c].pc = "done" /\ calls[c].resp = 200
    /\ paymentsCollection = << [amount |-> 10], [amount |-> 20], [amount |-> 30] >>
    /\ calls[c].out.totalFunds = 60

\* C15: an update of a donation request with an empty patch leaves the whole
\* requests collection as it is and is answered with a modified count of 0,
\* in every state in which it runs.
EmptyPatchChangesNothing ==
  [][\A c \in Clients :
       (calls[c].ep = "patchRequest" /\ calls[c].pc = "handler"
          /\ calls[c].body = NoBody /\ calls'[c].pc = "done") =>
         /\ requestsCollection' = requestsCollection
         /\ calls'[c].resp = 200
         /\ calls'[c].out.modified = 0]_vars

\* an empty patch was answered while a request with a donor is stored
EmptyPatchChangesNothingWitness ==
  \E c \in Clients :
    /\ calls[c].ep = "patchRequest" /\ calls[c].pc = "done"
    /\ calls[c].body = NoBody
    /\ calls[c].resp = 200 /\ calls[c].out.modified = 0
    /\ \E i \in 1..Len(requestsCollection) :
         /\ ~requestsCollection[i].deleted
         /\ requestsCollection[i].donor # NoDonor
         /\ requestsCollection[i].status # "pending"

\* C17: a call in which a store operation has failed is answered, and its
\* answer is 500: no such call is left without a response.
StoreFailureIsAnswered500 ==
  \A c \in Clients :
    calls[c].failed => calls[c].pc = "done" /\ calls[c].resp = 500

\* C18: no stored donation request has status pending and a donor.
PendingHasNoDonor ==
  \A i \in 1..Len(requestsCollection) :
    ~requestsCollection[i].deleted =>
      ~(requestsCollection[i].status = "pending"
          /\ requestsCollection[i].donor # NoDonor)

\* C19: no two stored accounts have the same email, and the role of every
\* stored account is donor, volunteer or admin.
AccountsAreUniqueWithKnownRole ==
  /\ \A i, j \in 1..Len(usersCollection) :
       usersCollection[i].email = usersCollection[j].email => i = j
  /\ \A i \in 1..Len(usersCollection) : usersCollection[i].role \in Roles

====
